---- MODULE Spec2Model ----
(***************************************************************************)
(* A model of the NetCDF classic header decoder of libnetcdf-rs            *)
(* (src/src/reader.rs, src/src/consts.rs): NCFile::new over a seekable     *)
(* byte source, and the lazy typed iterator NCDataIter over a variable's   *)
(* captured data block.                                                    *)
(*                                                                         *)
(* The source is a sequence of bytes (0..255); the cursor `pos` is the     *)
(* 0-based position of io::Cursor / fs::File, which may lie beyond the end *)
(* of the source after a seek.  `reads` is the set of 0-based byte         *)
(* positions the decoder has consumed from the source so far.              *)
(*                                                                         *)
(* Integers: TLC's integers are 32-bit signed, so the sources drawn by     *)
(* Init keep the first byte of every 32-bit header field below 128 and the *)
(* upper four bytes of a 64-bit offset zero; u32/u64 values are then       *)
(* computed exactly.                                                       *)
(***************************************************************************)
EXTENDS Integers, Sequences, FiniteSets, TLC

VARIABLES
    src,        \* the byte source handed to NCFile::new
    pos,        \* the source's cursor
    reads,      \* byte positions consumed from the source
    pc,         \* the decoder's position in NCFile::new and its callees
    status,     \* "running", "ok" (Ok(f)), "err" (Err(ParseError)), "panic"
    err,        \* ParseError.reason class when status = "err"
    version,    \* f.version
    numrecs,    \* f.numrecs
    dimensions, \* f.dimensions
    attributes, \* f.attributes
    variables,  \* f.variables
    loc,        \* locals of parse_dimlist / parse_attrlist / parse_varlist / parse_var
    iter,       \* an NCDataIter over one decoded variable's block
    out         \* the items that iterator has returned so far

vars == <<src, pos, reads, pc, status, err, version, numrecs, dimensions,
          attributes, variables, loc, iter, out>>

(***************************************************************************)
(* consts.rs                                                               *)
(***************************************************************************)
MAGIC_NUMBER == <<67, 68, 70>>   \* "CDF"
NC_DIMENSION == 10
NC_VARIABLE == 11
NC_ATTRIBUTE == 12
NC_BYTE == 1
NC_CHAR == 2
NC_SHORT == 3
NC_INT == 4
NC_FLOAT == 5
NC_DOUBLE == 6

(***************************************************************************)
(* Bounds of the model                                                     *)
(***************************************************************************)
MaxVars == 2        \* variable descriptors in a generated source
MaxVsize == 5       \* largest declared vsize in a generated source
MaxAttrVals == 2    \* largest element count of a generated attribute
MaxDims == 2        \* dimensions in a generated dimension section

Max(a, b) == IF a >= b THEN a ELSE b

(***************************************************************************)
(* Primitive decoder.  Every reader returns                                *)
(*   [ok, val, pos, rd, why]: success, the value, the cursor afterwards,   *)
(*   the byte positions consumed, and the error class on failure.          *)
(***************************************************************************)

\* io::Read::read_exact on a buffer of n bytes: all n bytes or UnexpectedEof;
\* a failed read has consumed what was left of the source.
ReadExact(s, p, n) ==
    IF n = 0 \/ p + n <= Len(s)
    THEN [ok |-> TRUE, val |-> SubSeq(s, p + 1, p + n), pos |-> p + n,
          rd |-> p .. (p + n - 1), why |-> ""]
    ELSE [ok |-> FALSE, val |-> <<>>, pos |-> Max(p, Len(s)),
          rd |-> p .. (Len(s) - 1), why |-> "io"]

\* u32::from_be_bytes
U32Of(b) == b[1] * 16777216 + b[2] * 65536 + b[3] * 256 + b[4]

\* u64::from_be_bytes
U64Of(b) == U32Of(SubSeq(b, 1, 4)) * 65536 * 65536 + U32Of(SubSeq(b, 5, 8))

\* i16::from_be_bytes
I16Of(b) == (IF b[1] >= 128 THEN b[1] - 256 ELSE b[1]) * 256 + b[2]

\* i32::from_be_bytes
I32Of(b) ==
    (IF b[1] >= 128 THEN b[1] - 256 ELSE b[1]) * 16777216
        + b[2] * 65536 + b[3] * 256 + b[4]

\* the value of a one-element set: The({e(x) : x \in {v}}) is e(v), with v
\* evaluated once
The(S) == CHOOSE x \in S : TRUE

read_u8(s, p) ==
    The({IF r.ok THEN [r EXCEPT !.val = r.val[1]] ELSE r : r \in {ReadExact(s, p, 1)}})

read_u32(s, p) ==
    The({IF r.ok THEN [r EXCEPT !.val = U32Of(r.val)] ELSE r : r \in {ReadExact(s, p, 4)}})

read_u64(s, p) ==
    The({IF r.ok THEN [r EXCEPT !.val = U64Of(r.val)] ELSE r : r \in {ReadExact(s, p, 8)}})

\* PaddedLen without the test for an already aligned length
PaddedLenNext(len) == len + (4 - (len % 4))

\* the buffer length of read_bytes_padded: len rounded up to a multiple of 4
PaddedLen(len) == IF len % 4 = 0 THEN len ELSE len + (4 - (len % 4))

read_bytes_padded(s, p, len) == ReadExact(s, p, PaddedLen(len))

read_bytes(s, p, len) ==
    The({IF r.ok THEN [r EXCEPT !.val = SubSeq(r.val, 1, len)] ELSE r :
         r \in {read_bytes_padded(s, p, len)}})

\* a reader's result b after an earlier successful result a: the positions
\* consumed add up
Merge(a, b) == [b EXCEPT !.rd = a.rd \cup b.rd]

\* String::from_utf8's validity check (std::str::from_utf8) of b from index i
RECURSIVE Utf8From(_, _)
Utf8From(b, i) ==
    LET Cont(k) == k <= Len(b) /\ b[k] >= 128 /\ b[k] <= 191
    IN  IF i > Len(b) THEN TRUE
        ELSE IF b[i] < 128 THEN Utf8From(b, i + 1)
        ELSE IF b[i] >= 194 /\ b[i] <= 223 THEN Cont(i + 1) /\ Utf8From(b, i + 2)
        ELSE IF b[i] = 224
            THEN Cont(i + 1) /\ b[i + 1] >= 160 /\ Cont(i + 2) /\ Utf8From(b, i + 3)
        ELSE IF b[i] = 237
            THEN Cont(i + 1) /\ b[i + 1] <= 159 /\ Cont(i + 2) /\ Utf8From(b, i + 3)
        ELSE IF b[i] >= 225 /\ b[i] <= 239
            THEN Cont(i + 1) /\ Cont(i + 2) /\ Utf8From(b, i + 3)
        ELSE IF b[i] = 240
            THEN Cont(i + 1) /\ b[i + 1] >= 144 /\ Cont(i + 2) /\ Cont(i + 3)
                    /\ Utf8From(b, i + 4)
        ELSE IF b[i] >= 241 /\ b[i] <= 243
            THEN Cont(i + 1) /\ Cont(i + 2) /\ Cont(i + 3) /\ Utf8From(b, i + 4)
        ELSE IF b[i] = 244
            THEN Cont(i + 1) /\ b[i + 1] <= 143 /\ Cont(i + 2) /\ Cont(i + 3)
                    /\ Utf8From(b, i + 4)
        ELSE FALSE

IsUtf8(b) == Utf8From(b, 1)

\* read_string: u32 length, padded block, UTF-8 check.  A String is modelled
\* as its UTF-8 bytes.
read_string(s, p) ==
    The({IF ~l.ok THEN l
         ELSE The({IF ~b.ok THEN b
                   ELSE IF ~IsUtf8(b.val) THEN [b EXCEPT !.ok = FALSE, !.val = <<>>,
                                                         !.why = "utf8"]
                   ELSE b :
                   b \in {Merge(l, read_bytes(s, l.pos, l.val))}}) :
         l \in {read_u32(s, p)}})

\* the list readers read_i16_padded_list, read_i32_list, read_f32_list,
\* read_f64_list, and parse_var's dimids loop: `len` elements, each `take`
\* bytes read from the source, of which the first `use` bytes are the element
RECURSIVE ReadList(_, _, _, _, _)
ReadList(s, p, len, take, use) ==
    IF len = 0
    THEN [ok |-> TRUE, val |-> <<>>, pos |-> p, rd |-> {}, why |-> ""]
    ELSE The({IF ~e.ok THEN e
              ELSE The({IF ~t.ok THEN [t EXCEPT !.rd = e.rd \cup t.rd]
                        ELSE [t EXCEPT !.val = <<SubSeq(e.val, 1, use)>> \o t.val,
                                       !.rd = e.rd \cup t.rd] :
                        t \in {ReadList(s, e.pos, len - 1, take, use)}}) :
              e \in {ReadExact(s, p, take)}})



\* str::chars over a valid UTF-8 string: its code points, from index i
RECURSIVE CharsFrom(_, _)
CharsFrom(b, i) ==
    LET C(k) == b[k] - 128
    IN  IF i > Len(b) THEN <<>>
        ELSE IF b[i] < 128 THEN <<b[i]>> \o CharsFrom(b, i + 1)
        ELSE IF b[i] < 224
            THEN <<(b[i] - 192) * 64 + C(i + 1)>> \o CharsFrom(b, i + 2)
        ELSE IF b[i] < 240
            THEN <<(b[i] - 224) * 4096 + C(i + 1) * 64 + C(i + 2)>>
                    \o CharsFrom(b, i + 3)
        ELSE <<(b[i] - 240) * 262144 + C(i + 1) * 4096 + C(i + 2) * 64 + C(i + 3)>>
                \o CharsFrom(b, i + 4)

Utf8Chars(b) == CharsFrom(b, 1)

\* NCFile::parse_dim
parse_dim(s, p) ==
    The({IF ~name.ok THEN name
         ELSE The({IF ~dimlen.ok THEN dimlen
                   ELSE [dimlen EXCEPT !.val = [name |-> name.val,
                                                length |-> dimlen.val]] :
                   dimlen \in {Merge(name, read_u32(s, name.pos))}}) :
         name \in {read_string(s, p)}})

\* read_u32 for the element count, then a list reader:
\* read_i16_padded_list (4, 2), read_i32_list / read_f32_list (4, 4),
\* read_f64_list (8, 8); the elements as their bytes
CountedList(s, p, take, use) ==
    The({IF ~len.ok THEN len
         ELSE Merge(len, ReadList(s, len.pos, len.val, take, use)) :
         len \in {read_u32(s, p)}})

I16s(q) == [i \in 1 .. Len(q) |-> I16Of(q[i])]
I32s(q) == [i \in 1 .. Len(q) |-> I32Of(q[i])]

\* the value array of one attribute, by the (8-bit) type tag.  f32 and f64
\* values are modelled as their big-endian bit patterns.
AttrValues(s, p, nctype) ==
    CASE nctype = NC_BYTE ->
            The({IF ~len.ok THEN len
                 ELSE Merge(len, read_bytes(s, len.pos, len.val)) :
                 len \in {read_u32(s, p)}})
      [] nctype = NC_CHAR ->
            The({IF ~str.ok THEN str ELSE [str EXCEPT !.val = Utf8Chars(str.val)] :
                 str \in {read_string(s, p)}})
      [] nctype = NC_SHORT ->
            The({IF ~l.ok THEN l ELSE [l EXCEPT !.val = I16s(l.val)] :
                 l \in {CountedList(s, p, 4, 2)}})
      [] nctype = NC_INT ->
            The({IF ~l.ok THEN l ELSE [l EXCEPT !.val = I32s(l.val)] :
                 l \in {CountedList(s, p, 4, 4)}})
      [] nctype = NC_FLOAT -> CountedList(s, p, 4, 4)
      [] nctype = NC_DOUBLE -> CountedList(s, p, 8, 8)

KnownTypes == {NC_BYTE, NC_CHAR, NC_SHORT, NC_INT, NC_FLOAT, NC_DOUBLE}

\* `read_u32(r)? as u8`
AsU8(n) == n % 256

\* NCFile::parse_attr
parse_attr(s, p) ==
    The({IF ~name.ok THEN name
         ELSE The({IF ~tag.ok THEN tag
                   ELSE IF AsU8(tag.val) \notin KnownTypes
                       THEN [tag EXCEPT !.ok = FALSE, !.val = <<>>,
                                        !.why = "unknown type"]
                   ELSE The({IF ~vals.ok THEN vals
                             ELSE [vals EXCEPT !.val = [name |-> name.val,
                                                        ty |-> AsU8(tag.val),
                                                        values |-> vals.val]] :
                             vals \in {Merge(tag, AttrValues(s, tag.pos, AsU8(tag.val)))}}) :
                   tag \in {Merge(name, read_u32(s, name.pos))}}) :
         name \in {read_string(s, p)}})

(***************************************************************************)
(* State                                                                   *)
(***************************************************************************)
NoLocals ==
    [list |-> <<>>, remaining |-> 0, varlist |-> <<>>, vremaining |-> 0,
     name |-> <<>>, dimids |-> <<>>, attributes |-> <<>>, nctype |-> 0,
     vsize |-> 0, offset |-> 0, was |-> 0, data |-> <<>>]

NoIter == [on |-> FALSE, ty |-> 0, raw |-> <<>>, pos |-> 0, done |-> FALSE]

\* the cursor and the read log after a reader's result
Step(r) == pos' = r.pos /\ reads' = reads \cup r.rd

\* `?` on an Err: NCFile::new returns the error
Fail(r) ==
    /\ Step(r)
    /\ status' = "err"
    /\ err' = r.why
    /\ UNCHANGED <<src, pc, version, numrecs, dimensions, attributes,
                   variables, loc, iter, out>>

Running(at) == status = "running" /\ pc = at

\* MagicMatches, comparing only the last two bytes of the signature
MagicMatchesTail(b) == SubSeq(b, 2, 3) = SubSeq(MAGIC_NUMBER, 2, 3)

\* validate_magic_number's comparison `magic != MAGIC_NUMBER`, negated
MagicMatches(b) == b = MAGIC_NUMBER

\* NCFile::validate_magic_number, called first by NCFile::new
ValidateMagic ==
    /\ Running("magic")
    /\ \E r \in {ReadExact(src, pos, 3)} :
           IF ~r.ok
           THEN \* read_exact(..).unwrap() on an Err
                /\ Step(r)
                /\ status' = "panic"
                /\ UNCHANGED <<src, pc, err, version, numrecs, dimensions,
                               attributes, variables, loc, iter, out>>
           ELSE IF ~IsUtf8(r.val) THEN Fail([r EXCEPT !.ok = FALSE, !.why = "utf8"])
           ELSE IF ~MagicMatches(r.val)
               THEN Fail([r EXCEPT !.ok = FALSE, !.why = "incorrect magic number"])
           ELSE /\ Step(r)
                /\ pc' = "version"
                /\ UNCHANGED <<src, status, err, version, numrecs, dimensions,
                               attributes, variables, loc, iter, out>>

\* f.version = read_u8(r)?
ReadVersion ==
    /\ Running("version")
    /\ \E r \in {read_u8(src, pos)} :
           IF ~r.ok THEN Fail(r)
           ELSE /\ Step(r)
                /\ version' = r.val
                /\ pc' = "numrecs"
                /\ UNCHANGED <<src, status, err, numrecs, dimensions,
                               attributes, variables, loc, iter, out>>

\* f.numrecs = read_u32(r)?
ReadNumrecs ==
    /\ Running("numrecs")
    /\ \E r \in {read_u32(src, pos)} :
           IF ~r.ok THEN Fail(r)
           ELSE /\ Step(r)
                /\ numrecs' = r.val
                /\ pc' = "dimflag"
                /\ UNCHANGED <<src, status, err, version, dimensions,
                               attributes, variables, loc, iter, out>>

\* SkipPlaceholder without the seek
SkipNothing(p) == p

\* r.seek(io::SeekFrom::Current(4)) of an absent section
SkipPlaceholder(p) == p + 4

\* One section stage of NCFile::new: the tag read, then either the list
\* decoder's length read (parse_dimlist / parse_attrlist / parse_varlist
\* up to its loop) or the 4-byte seek.  [ok, present, len, pos, rd, why]
SectionHead(s, p, marker) ==
    The({IF ~flag.ok THEN flag
         ELSE IF AsU8(flag.val) = marker
             THEN The({IF ~len.ok THEN len
                       ELSE [len EXCEPT !.val = [present |-> TRUE, len |-> len.val]] :
                       len \in {Merge(flag, read_u32(s, flag.pos))}})
         ELSE [flag EXCEPT !.val = [present |-> FALSE, len |-> 0],
                           !.pos = SkipPlaceholder(flag.pos)] :
         flag \in {read_u32(s, p)}})

\* the dimension section stage of NCFile::new
DimSection ==
    /\ Running("dimflag")
    /\ \E h \in {SectionHead(src, pos, NC_DIMENSION)} :
           IF ~h.ok THEN Fail(h)
           ELSE /\ Step(h)
                /\ IF h.val.present
                   THEN /\ pc' = "dimlist"
                        /\ loc' = [loc EXCEPT !.list = <<>>,
                                              !.remaining = h.val.len]
                   ELSE /\ pc' = "attrflag"
                        /\ loc' = loc
                /\ UNCHANGED <<src, status, err, version, numrecs, dimensions,
                               attributes, variables, iter, out>>

\* one iteration of parse_dimlist's loop
ParseDim ==
    /\ Running("dimlist")
    /\ loc.remaining > 0
    /\ \E r \in {parse_dim(src, pos)} :
           IF ~r.ok THEN Fail(r)
           ELSE /\ Step(r)
                /\ loc' = [loc EXCEPT !.list = Append(@, r.val),
                                      !.remaining = @ - 1]
                /\ UNCHANGED <<src, pc, status, err, version, numrecs,
                               dimensions, attributes, variables, iter, out>>

\* parse_dimlist returns: f.dimensions = ...
DimListDone ==
    /\ Running("dimlist")
    /\ loc.remaining = 0
    /\ dimensions' = loc.list
    /\ pc' = "attrflag"
    /\ UNCHANGED <<src, pos, reads, status, err, version, numrecs,
                   attributes, variables, loc, iter, out>>

\* the global attribute section stage of NCFile::new
AttrSection ==
    /\ Running("attrflag")
    /\ \E h \in {SectionHead(src, pos, NC_ATTRIBUTE)} :
           IF ~h.ok THEN Fail(h)
           ELSE /\ Step(h)
                /\ IF h.val.present
                   THEN /\ pc' = "attrlist"
                        /\ loc' = [loc EXCEPT !.list = <<>>,
                                              !.remaining = h.val.len]
                   ELSE /\ pc' = "varflag"
                        /\ loc' = loc
                /\ UNCHANGED <<src, status, err, version, numrecs, dimensions,
                               attributes, variables, iter, out>>

\* one iteration of parse_attrlist's loop, for the global list or a variable's
ParseAttr ==
    /\ status = "running"
    /\ pc \in {"attrlist", "var_attrlist"}
    /\ loc.remaining > 0
    /\ \E r \in {parse_attr(src, pos)} :
           IF ~r.ok THEN Fail(r)
           ELSE /\ Step(r)
                /\ loc' = [loc EXCEPT !.list = Append(@, r.val),
                                      !.remaining = @ - 1]
                /\ UNCHANGED <<src, pc, status, err, version, numrecs,
                               dimensions, attributes, variables, iter, out>>

\* parse_attrlist returns to NCFile::new: f.attributes = ...
AttrListDone ==
    /\ Running("attrlist")
    /\ loc.remaining = 0
    /\ attributes' = loc.list
    /\ pc' = "varflag"
    /\ UNCHANGED <<src, pos, reads, status, err, version, numrecs,
                   dimensions, variables, loc, iter, out>>


\* the variable section stage of NCFile::new; an absent section ends the
\* decode with Ok(f)
VarSection ==
    /\ Running("varflag")
    /\ \E h \in {SectionHead(src, pos, NC_VARIABLE)} :
           IF ~h.ok THEN Fail(h)
           ELSE /\ Step(h)
                /\ IF h.val.present
                   THEN /\ pc' = "varlist"
                        /\ loc' = [loc EXCEPT !.varlist = <<>>,
                                              !.vremaining = h.val.len]
                        /\ status' = status
                   ELSE /\ pc' = "done"
                        /\ loc' = loc
                        /\ status' = "ok"
                /\ UNCHANGED <<src, err, version, numrecs, dimensions,
                               attributes, variables, iter, out>>

U32s(q) == [i \in 1 .. Len(q) |-> U32Of(q[i])]

\* parse_var up to its call of parse_attrlist's loop: name, dimids, the
\* 4-byte seek over the attribute flag, and the attribute list's length
VarHead(s, p) ==
    The({IF ~name.ok THEN name
         ELSE The({IF ~ids.ok THEN ids
                   ELSE The({IF ~len.ok THEN len
                             ELSE [len EXCEPT !.val = [name |-> name.val,
                                                       dimids |-> U32s(ids.val),
                                                       len |-> len.val]] :
                             len \in {Merge(ids, read_u32(s, ids.pos + 4))}}) :
                   ids \in {Merge(name, CountedList(s, name.pos, 4, 4))}}) :
         name \in {read_string(s, p)}})

\* one iteration of parse_varlist's loop begins: parse_var's first part
ParseVarHead ==
    /\ Running("varlist")
    /\ loc.vremaining > 0
    /\ \E r \in {VarHead(src, pos)} :
           IF ~r.ok THEN Fail(r)
           ELSE /\ Step(r)
                /\ pc' = "var_attrlist"
                /\ loc' = [loc EXCEPT !.name = r.val.name,
                                      !.dimids = r.val.dimids,
                                      !.list = <<>>,
                                      !.remaining = r.val.len]
                /\ UNCHANGED <<src, status, err, version, numrecs, dimensions,
                               attributes, variables, iter, out>>

\* parse_attrlist returns to parse_var: let attributes = ...
VarAttrListDone ==
    /\ Running("var_attrlist")
    /\ loc.remaining = 0
    /\ loc' = [loc EXCEPT !.attributes = loc.list]
    /\ pc' = "var_type"
    /\ UNCHANGED <<src, pos, reads, status, err, version, numrecs,
                   dimensions, attributes, variables, iter, out>>

\* parse_var: let nctype = read_u32(r)? as u8; let vsize = read_u32(r)?
VarTypeSize(s, p) ==
    The({IF ~tag.ok THEN tag
         ELSE The({IF ~vsize.ok THEN vsize
                   ELSE [vsize EXCEPT !.val = [nctype |-> AsU8(tag.val),
                                               vsize |-> vsize.val]] :
                   vsize \in {Merge(tag, read_u32(s, tag.pos))}}) :
         tag \in {read_u32(s, p)}})

ParseVarType ==
    /\ Running("var_type")
    /\ \E r \in {VarTypeSize(src, pos)} :
           IF ~r.ok THEN Fail(r)
           ELSE /\ Step(r)
                /\ pc' = "var_offset"
                /\ loc' = [loc EXCEPT !.nctype = r.val.nctype,
                                      !.vsize = r.val.vsize]
                /\ UNCHANGED <<src, status, err, version, numrecs, dimensions,
                               attributes, variables, iter, out>>

\* ReadOffset without the version switch
ReadOffset32(s, p, ver) == read_u32(s, p)

\* the data offset field of parse_var, by the file's version
ReadOffset(s, p, ver) == IF ver = 1 THEN read_u32(s, p) ELSE read_u64(s, p)

\* parse_var: the offset field, then `was` = the cursor
ParseVarOffset ==
    /\ Running("var_offset")
    /\ \E r \in {ReadOffset(src, pos, version)} :
           IF ~r.ok THEN Fail(r)
           ELSE /\ Step(r)
                /\ pc' = "var_seek"
                /\ loc' = [loc EXCEPT !.offset = r.val, !.was = r.pos]
                /\ UNCHANGED <<src, status, err, version, numrecs, dimensions,
                               attributes, variables, iter, out>>

\* r.seek(io::SeekFrom::Start(offset))
SeekTarget(l) == l.offset

ParseVarSeek ==
    /\ Running("var_seek")
    /\ pos' = SeekTarget(loc)
    /\ pc' = "var_read"
    /\ UNCHANGED <<src, reads, status, err, version, numrecs, dimensions,
                   attributes, variables, loc, iter, out>>

\* let data = read_bytes(r, vsize)?
ParseVarRead ==
    /\ Running("var_read")
    /\ \E r \in {read_bytes(src, pos, loc.vsize)} :
           IF ~r.ok THEN Fail(r)
           ELSE /\ Step(r)
                /\ pc' = "var_build"
                /\ loc' = [loc EXCEPT !.data = r.val]
                /\ UNCHANGED <<src, status, err, version, numrecs, dimensions,
                               attributes, variables, iter, out>>

\* RestoreTarget without the seek back
StayAtData(l, p) == p

\* r.seek(io::SeekFrom::Start(was)) at the end of parse_var
RestoreTarget(l, p) == l.was

\* the end of parse_var: the match on nctype, the seek back, and the push
\* onto parse_varlist's list
ParseVarBuild ==
    /\ Running("var_build")
    /\ IF loc.nctype \notin KnownTypes
       THEN Fail([ok |-> FALSE, val |-> <<>>, pos |-> pos, rd |-> {},
                  why |-> "unknown type"])
       ELSE /\ pos' = RestoreTarget(loc, pos)
            /\ pc' = "varlist"
            /\ loc' = [loc EXCEPT
                         !.varlist = Append(@, [ty |-> loc.nctype,
                                                name |-> loc.name,
                                                dimids |-> loc.dimids,
                                                attributes |-> loc.attributes,
                                                data |-> loc.data]),
                         !.vremaining = @ - 1]
            /\ UNCHANGED <<src, reads, status, err, version, numrecs,
                           dimensions, attributes, variables, iter, out>>

\* parse_varlist returns: f.variables = ..., and NCFile::new returns Ok(f)
VarListDone ==
    /\ Running("varlist")
    /\ loc.vremaining = 0
    /\ variables' = loc.varlist
    /\ pc' = "done"
    /\ status' = "ok"
    /\ UNCHANGED <<src, pos, reads, err, version, numrecs, dimensions,
                   attributes, loc, iter, out>>

(***************************************************************************)
(* NCData / NCDataIter                                                     *)
(***************************************************************************)

\* std::mem::size_of::<T>() for the element type of each NCVariable variant:
\* u8, char, i16, i32, f32, f64.  A Rust char is a 4-byte Unicode scalar.
SizeOf(ty) ==
    CASE ty = NC_BYTE -> 1
      [] ty = NC_CHAR -> 4
      [] ty = NC_SHORT -> 2
      [] ty = NC_INT -> 4
      [] ty = NC_FLOAT -> 4
      [] ty = NC_DOUBLE -> 8

\* NCDataIter::check_pos: Some(()) or None
check_pos(it) == it.pos + SizeOf(it.ty) <= Len(it.raw)

\* the element each Iterator impl builds at self.pos
Decode(it) ==
    LET At(n) == SubSeq(it.raw, it.pos + 1, it.pos + n)
    IN  CASE it.ty = NC_BYTE -> it.raw[it.pos + 1]
          [] it.ty = NC_CHAR -> it.raw[it.pos + 1]
          [] it.ty = NC_SHORT -> I16Of(At(2))
          [] it.ty = NC_INT -> I32Of(At(4))
          [] it.ty = NC_FLOAT -> At(4)
          [] it.ty = NC_DOUBLE -> At(8)

\* NCData::iter on the data of variable i of the decoded file
IterNew(i) ==
    /\ status = "ok"
    /\ i \in 1 .. Len(variables)
    /\ iter' = [on |-> TRUE, ty |-> variables[i].ty, raw |-> variables[i].data,
                pos |-> 0, done |-> FALSE]
    /\ out' = <<>>
    /\ UNCHANGED <<src, pos, reads, pc, status, err, version, numrecs,
                   dimensions, attributes, variables, loc>>

\* Iterator::next on the iterator, until it has returned None
IterNext ==
    /\ iter.on
    /\ ~iter.done
    /\ IF check_pos(iter)
       THEN /\ out' = Append(out, Decode(iter))
            /\ iter' = [iter EXCEPT !.pos = @ + SizeOf(iter.ty)]
       ELSE /\ out' = out
            /\ iter' = [iter EXCEPT !.done = TRUE]
    /\ UNCHANGED <<src, pos, reads, pc, status, err, version, numrecs,
                   dimensions, attributes, variables, loc>>


(***************************************************************************)
(* The byte sources NCFile::new is run on: files laid out as the decoder   *)
(* reads them (and as src/src/reader.rs's tests expect of the samples),    *)
(* with absent and present sections, every type tag, data blocks before    *)
(* and after the header cursor, and truncated and malformed files.         *)
(***************************************************************************)
BE4(n) ==
    <<(n \div 16777216) % 256, (n \div 65536) % 256, (n \div 256) % 256, n % 256>>

BE8(n) == BE4(0) \o BE4(n)

Zeros(n) == [i \in 1 .. n |-> 0]

Padded(b) == b \o Zeros(PaddedLen(Len(b)) - Len(b))

Str(b) == BE4(Len(b)) \o Padded(b)

RECURSIVE Flat(_)
Flat(q) == IF q = <<>> THEN <<>> ELSE Head(q) \o Flat(Tail(q))

\* type tags a generated record carries: the six known ones, unknown ones,
\* and 32-bit values whose low byte is a known or an unknown tag
TypeTags == {0, 1, 2, 3, 4, 5, 6, 7, 257, 263}

\* the k-th byte of generated element data
DataByte(k) == (200 + 37 * k) % 256

\* an attribute record: name, tag, and n elements laid out for the tag's low byte
AttrRec(name, tag, n) ==
    LET ty == tag % 256
        Elem(k) ==
            CASE ty = NC_SHORT -> <<DataByte(k), DataByte(k + 1), 0, 0>>
              [] ty = NC_DOUBLE -> [i \in 1 .. 8 |-> DataByte(k + i)]
              [] OTHER -> [i \in 1 .. 4 |-> DataByte(k + i)]
        body ==
            IF ty \in {NC_BYTE, NC_CHAR}
            THEN Str([i \in 1 .. n |-> 97 + i])
            ELSE BE4(n) \o Flat([k \in 1 .. n |-> Elem(k)])
    IN  Str(name) \o BE4(tag) \o body

\* a section: its tag field, then the list (count and records) or the placeholder
Section(tag, recs) == BE4(tag) \o BE4(Len(recs)) \o Flat(recs)

DimRec(k) == Str(<<119 + k>>) \o BE4(k)

DimSecs ==
    {Section(0, <<>>), BE4(NC_VARIABLE) \o BE4(7),
     Section(256 + NC_DIMENSION, <<DimRec(1)>>)}
        \cup {Section(NC_DIMENSION, [k \in 1 .. n |-> DimRec(k)]) : n \in 0 .. MaxDims}

AttrSecs ==
    {Section(0, <<>>), BE4(NC_DIMENSION) \o BE4(7),
     Section(NC_ATTRIBUTE, <<AttrRec(<<97>>, NC_CHAR, 2)>>),
     Section(256 + NC_ATTRIBUTE, <<AttrRec(<<97>>, NC_INT, 1)>>)}

Head8(ver) == MAGIC_NUMBER \o <<ver>> \o BE4(0)

OffsetField(ver, off) == IF ver = 1 THEN BE4(off) ELSE BE8(off)

\* a variable descriptor
VarRec(ver, k, dimids, attrs, tag, vsize, off) ==
    Str(<<117 + k>>) \o BE4(Len(dimids)) \o Flat([i \in 1 .. Len(dimids) |-> BE4(dimids[i])])
        \o Section(IF attrs = <<>> THEN 0 ELSE NC_ATTRIBUTE, attrs)
        \o BE4(tag) \o BE4(vsize) \o OffsetField(ver, off)

\* the shapes of a generated variable: its dimension references and attributes
VarShapes ==
    {[dimids |-> <<>>, attrs |-> <<>>],
     [dimids |-> <<0>>, attrs |-> <<AttrRec(<<117>>, NC_CHAR, 1)>>],
     [dimids |-> <<1, 0>>, attrs |-> <<>>]}

\* where the data blocks of a file's n variables lie: in descriptor order after
\* the header, in reverse order, inside the header, or beyond the end
Layouts == {"fwd", "rev", "hdr", "past"}

\* a file with n variables of one type and vsize
VarFile(ver, dimsec, attrsec, vtag, n, shape, tag, vsize, layout, exact) ==
    LET stride == PaddedLen(vsize)
        Off(h, i) ==
            CASE layout = "fwd" -> h + (i - 1) * stride
              [] layout = "rev" -> h + (n - i) * stride
              [] layout = "hdr" -> 4 * (i - 1)
              [] layout = "past" -> h + n * stride + 4
        Hdr(h) ==
            Head8(ver) \o dimsec \o attrsec
                \o Section(vtag, [i \in 1 .. n |->
                     VarRec(ver, i, shape.dimids, shape.attrs, tag, vsize, Off(h, i))])
        h0 == Len(Hdr(0))
        dlen == IF n = 0 THEN 0
                ELSE IF exact THEN (n - 1) * stride + vsize ELSE n * stride
    IN  Hdr(h0) \o [k \in 1 .. dlen |-> DataByte(k)]

OneDim == Section(NC_DIMENSION, <<DimRec(1)>>)

\* files that differ in which sections are present and how they are tagged
SectionFiles ==
    {VarFile(ver, d, a, v[1], v[2], CHOOSE sh \in VarShapes : sh.dimids = <<>>,
             NC_INT, 4, "fwd", FALSE) :
        ver \in {1, 2, 3}, d \in DimSecs, a \in AttrSecs,
        v \in {<<0, 0>>, <<256 + NC_VARIABLE, 1>>, <<NC_VARIABLE, 0>>, <<NC_VARIABLE, 1>>}}
        \cup {Head8(ver) \o d \o a \o BE4(NC_ATTRIBUTE) \o BE4(7) :
                ver \in {0, 1}, d \in DimSecs, a \in AttrSecs}
        \cup {Head8(1) \o Section(0, <<>>) \o Section(0, <<>>) \o BE4(0)}

\* files with one global attribute of every type tag and element count
AttrFiles ==
    {Head8(1) \o Section(0, <<>>) \o Section(NC_ATTRIBUTE, <<AttrRec(nm, tag, n)>>)
        \o Section(0, <<>>) :
        nm \in {<<97>>, <<255>>}, tag \in TypeTags, n \in 0 .. MaxAttrVals}

\* declared block lengths: every length up to the bound, and one double
VSizes == (0 .. MaxVsize) \cup {8}

\* files with variables of every type tag, vsize and data layout
VarFiles ==
    {VarFile(ver, OneDim, Section(0, <<>>), NC_VARIABLE, n, sh, tag, vsize, lay, ex) :
        ver \in {1, 2}, n \in 1 .. MaxVars, sh \in VarShapes, tag \in TypeTags \ {0, 263},
        vsize \in VSizes, lay \in Layouts, ex \in BOOLEAN}

\* one complete file of each version, and every prefix of it
FullFile(ver) ==
    VarFile(ver, OneDim, Section(NC_ATTRIBUTE, <<AttrRec(<<97>>, NC_SHORT, 1)>>),
            NC_VARIABLE, 1, CHOOSE sh \in VarShapes : sh.dimids = <<0>>,
            NC_FLOAT, 4, "fwd", FALSE)

TruncatedFiles ==
    UNION {{SubSeq(FullFile(ver), 1, k) : k \in 0 .. Len(FullFile(ver))} : ver \in {1, 2}}

\* files whose first three bytes are not "CDF"
BadMagicFiles ==
    {m \o Tail(Tail(Tail(FullFile(1)))) :
        m \in {<<88, 68, 70>>, <<67, 68, 71>>, <<99, 100, 102>>, <<255, 68, 70>>}}
        \cup {<<88, 68, 70>>, <<67, 68, 70>>}

\* files with one dimension whose name has every length up to the bound
NameFiles ==
    {Head8(1) \o Section(NC_DIMENSION, <<Str([i \in 1 .. n |-> 96 + i]) \o BE4(n + 1)>>)
        \o Section(0, <<>>) \o Section(0, <<>>) :
        n \in 0 .. MaxVsize}

Sources ==
    SectionFiles \cup AttrFiles \cup VarFiles \cup TruncatedFiles \cup BadMagicFiles
        \cup NameFiles

Init ==
    /\ src \in Sources
    /\ pos = 0
    /\ reads = {}
    /\ pc = "magic"
    /\ status = "running"
    /\ err = ""
    /\ version = 0
    /\ numrecs = 0
    /\ dimensions = <<>>
    /\ attributes = <<>>
    /\ variables = <<>>
    /\ loc = NoLocals
    /\ iter = NoIter
    /\ out = <<>>

Next ==
    \/ ValidateMagic
    \/ ReadVersion
    \/ ReadNumrecs
    \/ DimSection
    \/ ParseDim
    \/ DimListDone
    \/ AttrSection
    \/ ParseAttr
    \/ AttrListDone
    \/ VarSection
    \/ ParseVarHead
    \/ VarAttrListDone
    \/ ParseVarType
    \/ ParseVarOffset
    \/ ParseVarSeek
    \/ ParseVarRead
    \/ ParseVarBuild
    \/ VarListDone
    \/ \E i \in 1 .. MaxVars : IterNew(i)
    \/ IterNext

Spec == Init /\ [][Next]_vars


(***************************************************************************)
(* Properties                                                              *)
(***************************************************************************)

\* the 32-bit big-endian field at 0-based position p of the source
FieldAt(p) == U32Of(SubSeq(src, p + 1, p + 4))

\* the three section stages of NCFile::new
Stages ==
    {[at |-> "dimflag", marker |-> NC_DIMENSION, next |-> "attrflag"],
     [at |-> "attrflag", marker |-> NC_ATTRIBUTE, next |-> "varflag"],
     [at |-> "varflag", marker |-> NC_VARIABLE, next |-> "done"]}

\* the list a section stage leaves in the file
SectionList(at) ==
    CASE at = "dimflag" -> dimensions
      [] at = "attrflag" -> attributes
      [] at = "varflag" -> variables

\* C1 as stated: at each section stage, a tag field that differs from the
\* section's marker is itself the placeholder: the stage advances the cursor
\* by exactly 4 bytes, leaves the section's list empty, and the next stage
\* reads its tag from the following 4 bytes.
C1_TagIsPlaceholder ==
    [][\A st \in Stages :
          (Running(st.at) /\ pos + 4 <= Len(src) /\ FieldAt(pos) # st.marker)
              => /\ pos' = pos + 4
                 /\ pc' = st.next
                 /\ SectionList(st.at)' = <<>>]_vars

\* C1, amended: at each section stage, when the low byte of the tag field
\* differs from the section's marker, the decoder seeks over 4 further
\* bytes: the stage advances the cursor by exactly 8 bytes having read only
\* the 4 tag bytes, the section's list is empty, and the next stage (or the
\* end of the decode, after the variable stage) follows at that position.
C1_PlaceholderSkipped ==
    [][\A st \in Stages :
          (Running(st.at) /\ pos + 4 <= Len(src)
                /\ AsU8(FieldAt(pos)) # st.marker)
              => /\ pos' = pos + 8
                 /\ reads' = reads \cup (pos .. (pos + 3))
                 /\ pc' = st.next
                 /\ status' = (IF st.at = "varflag" THEN "ok" ELSE "running")
                 /\ SectionList(st.at)' = <<>>]_vars

\* a decode in which all three sections were absent, one of them under a
\* non-zero tag: 8 header bytes, then 8 bytes per section
C1_Witness ==
    /\ status = "ok"
    /\ pos = 32
    /\ reads = (0 .. 11) \cup (16 .. 19) \cup (24 .. 27)
    /\ AsU8(FieldAt(8)) # NC_DIMENSION
    /\ AsU8(FieldAt(16)) # NC_ATTRIBUTE
    /\ AsU8(FieldAt(24)) # NC_VARIABLE
    /\ FieldAt(8) # 0
    /\ dimensions = <<>> /\ attributes = <<>> /\ variables = <<>>

\* C2: a source whose version byte is not 1 or 2 is never decoded
\* successfully.
C2_VersionChecked ==
    (Len(src) >= 4 /\ src[4] \notin {1, 2}) => status # "ok"

\* C3: a 32-bit type tag field outside 1..6 makes the decode fail with
\* "unknown type": in an attribute record, as soon as the tag is read; in a
\* variable descriptor, whatever its vsize and data offset.
C3_UnknownTypeFails ==
    [][/\ (/\ status = "running"
           /\ pc \in {"attrlist", "var_attrlist"}
           /\ loc.remaining > 0
           /\ read_string(src, pos).ok
           /\ read_string(src, pos).pos + 4 <= Len(src)
           /\ FieldAt(read_string(src, pos).pos) \notin 1 .. 6)
          => (status' = "err" /\ err' = "unknown type")
       /\ (/\ status = "running"
           /\ pc \in {"var_read", "var_build"}
           /\ FieldAt(loc.was - (IF version = 1 THEN 4 ELSE 8) - 8) \notin 1 .. 6)
          => /\ pc = "var_build" => status' = "err"
             /\ status' = "err" => err' = "unknown type"]_vars

\* the element widths of the format: byte, char, short, int, float, double
FormatWidth(ty) ==
    CASE ty = NC_BYTE -> 1
      [] ty = NC_CHAR -> 1
      [] ty = NC_SHORT -> 2
      [] ty = NC_INT -> 4
      [] ty = NC_FLOAT -> 4
      [] ty = NC_DOUBLE -> 8

\* the big-endian element of width w at 0-based position p of a block
FormatElem(raw, p, ty) ==
    LET b == SubSeq(raw, p + 1, p + FormatWidth(ty))
    IN  CASE ty \in {NC_BYTE, NC_CHAR} -> b[1]
          [] ty = NC_SHORT -> I16Of(b)
          [] ty = NC_INT -> I32Of(b)
          [] OTHER -> b

\* C4: an iterator has returned the elements of width w (the format's width
\* of its type) at positions 0, w, 2w, ... in block order, stands at the
\* position after them, and has returned None exactly when fewer than w
\* bytes remain: floor(L/w) elements in all.
C4_IterByFormatWidth ==
    iter.on =>
        LET w == FormatWidth(iter.ty)
        IN  /\ iter.pos = Len(out) * w
            /\ iter.pos <= Len(iter.raw)
            /\ \A k \in 1 .. Len(out) : out[k] = FormatElem(iter.raw, (k - 1) * w, iter.ty)
            /\ iter.done => (Len(iter.raw) - iter.pos < w /\ Len(out) = Len(iter.raw) \div w)

\* C5: NCFile::new never panics: a source exhausted before a header field
\* can be read in full, the magic bytes included, ends in Err.
C5_IoFailureIsErr ==
    /\ status # "panic"
    /\ (Len(src) < 3 /\ status # "running") => status = "err"

\* C6: in a decoded file every dimension reference of every variable is an
\* index into the dimension table.
C6_DimRefsValid ==
    status = "ok" =>
        \A i \in 1 .. Len(variables) :
            \A j \in 1 .. Len(variables[i].dimids) :
                variables[i].dimids[j] < Len(dimensions)

\* C7: once NCFile::new has acted on a source whose first 3 bytes are not
\* "CDF", it has failed with an error at the magic check, without a panic,
\* without a file, having read bytes 0..2 of the source and nothing else.
C7_BadMagicFails ==
    (/\ Len(src) >= 3
     /\ SubSeq(src, 1, 3) # <<67, 68, 70>>
     /\ (status # "running" \/ pc # "magic"))
        => /\ status = "err"
           /\ err \in {"incorrect magic number", "utf8"}
           /\ pc = "magic"
           /\ pos = 3
           /\ reads = 0 .. 2
           /\ variables = <<>> /\ dimensions = <<>> /\ attributes = <<>>

C7_Witness ==
    /\ status = "err"
    /\ err = "incorrect magic number"
    /\ Len(src) > 3
    /\ SubSeq(src, 1, 3) = <<88, 68, 70>>
    /\ reads = 0 .. 2

\* the value of a big-endian byte string
RECURSIVE BigEndian(_, _)
BigEndian(b, n) == IF n = 0 THEN 0 ELSE BigEndian(b, n - 1) * 256 + b[n]

\* C8: parse_var reads the data offset field as 4 bytes when the version is
\* 1 and as 8 bytes otherwise: the cursor advances by that many bytes over
\* the field, the offset is the field's big-endian value, and the following
\* seek puts the cursor at that absolute position.
C8_OffsetWidth ==
    [][/\ Running("var_offset") =>
            LET w == IF version = 1 THEN 4 ELSE 8
            IN  IF pos + w <= Len(src)
                THEN /\ status' = "running"
                     /\ pos' = pos + w
                     /\ reads' = reads \cup (pos .. (pos + w - 1))
                     /\ loc'.offset = BigEndian(SubSeq(src, pos + 1, pos + w), w)
                ELSE status' = "err" /\ err' = "io"
       /\ Running("var_seek") => pos' = loc.offset]_vars

\* a version-2 descriptor whose 8-byte offset field has been read and
\* followed to a data block away from the start of the source
C8_Witness ==
    /\ status = "running"
    /\ pc = "var_read"
    /\ version = 2
    /\ loc.offset > 0
    /\ pos = loc.offset
    /\ ((loc.was - 8) .. (loc.was - 1)) \subseteq reads
    /\ BigEndian(SubSeq(src, loc.was - 7, loc.was), 8) = loc.offset

\* C9: whenever parse_var has returned a variable, the cursor is where it
\* was recorded just after the variable's offset field, wherever the data
\* block lay: the next descriptor (or the end of the decode) follows the
\* header, not the data.
C9_CursorRestored ==
    (/\ status \in {"running", "ok"}
     /\ pc \in {"varlist", "done"}
     /\ Len(loc.varlist) > 0)
        => pos = loc.was

\* the first of two variables is decoded, its data block lay beyond the
\* header cursor and beyond the second variable's block, and the cursor is
\* back at the header for the second descriptor
C9_Witness ==
    /\ status = "running"
    /\ pc = "varlist"
    /\ Len(loc.varlist) = 1
    /\ loc.vremaining = 1
    /\ loc.vsize > 0
    /\ loc.offset > loc.was
    /\ loc.data = SubSeq(src, loc.offset + 1, loc.offset + loc.vsize)
    /\ pos = loc.was

\* C10: the data capture of parse_var reads only the bytes at
\* [offset, offset + vsize), and when that range lies inside the source it
\* succeeds and stores exactly those bytes.
C10_ReadsExactlyVsize ==
    [][Running("var_read") =>
          /\ (reads' \ reads) \subseteq (loc.offset .. (loc.offset + loc.vsize - 1))
          /\ loc.offset + loc.vsize <= Len(src) =>
                /\ status' = "running"
                /\ loc'.data = SubSeq(src, loc.offset + 1, loc.offset + loc.vsize)]_vars

\* the smallest multiple of 4 that is >= n
NextMultipleOf4(n) == CHOOSE m \in n .. (n + 3) : m % 4 = 0

\* C11: a padded block read of declared length N that succeeds advances the
\* cursor by the smallest multiple of 4 that is >= N, consumes exactly those
\* positions, and returns exactly the first N bytes at the position where it
\* began.  Stated for read_bytes (the data capture of parse_var, N = vsize)
\* and for read_string (the name of parse_dim, N = the 4-byte length prefix
\* at the cursor; parse_dim then reads the 4-byte length of the dimension).
C11_PaddedRead ==
    [][/\ (Running("var_read") /\ pc' = "var_build") =>
              /\ pos' = pos + NextMultipleOf4(loc.vsize)
              /\ (pos' - pos) % 4 = 0
              /\ reads' = reads \cup (pos .. (pos' - 1))
              /\ Len(loc'.data) = loc.vsize
              /\ loc'.data = SubSeq(src, pos + 1, pos + loc.vsize)
       /\ (Running("dimlist") /\ Len(loc'.list) = Len(loc.list) + 1) =>
              \E n \in {BigEndian(SubSeq(src, pos + 1, pos + 4), 4)} :
                  /\ pos' = pos + 4 + NextMultipleOf4(n) + 4
                  /\ (pos' - (pos + 4)) % 4 = 0
                  /\ reads' = reads \cup (pos .. (pos' - 1))
                  /\ Len(loc'.list[Len(loc'.list)].name) = n
                  /\ loc'.list[Len(loc'.list)].name = SubSeq(src, pos + 5, pos + 4 + n)]_vars

\* a data block of 5 bytes has been captured by an 8-byte read, after a
\* dimension whose 1-byte name was read from a 4-byte padded block
C11_Witness ==
    /\ status = "running"
    /\ pc = "var_build"
    /\ loc.vsize = 5
    /\ pos = loc.offset + 8
    /\ loc.data = SubSeq(src, loc.offset + 1, loc.offset + 5)
    /\ (loc.offset .. (loc.offset + 7)) \subseteq reads
    /\ Len(dimensions) = 1
    /\ Len(dimensions[1].name) = 1

====
